---- MODULE Spec2Model ----
(***************************************************************************)
(* A model of outlook_to_ics.py: the accessible-label parser with its      *)
(* duplicate filter (OutlookEventParser), merge_events, and the Google     *)
(* Calendar reconciliation (GoogleCalendarExporter.export_event driven by  *)
(* the export loop of main).                                               *)
(*                                                                         *)
(* Text is a sequence of word tokens: "Out of Office" is                   *)
(* <<"Out","of","Office">>, and the empty string is <<>>.  A naive         *)
(* datetime is [day, hm, sec] with hm the minute of the day; a remote      *)
(* dateTime string carries an offset as well.                              *)
(***************************************************************************)
EXTENDS Integers, Sequences, FiniteSets, TLC

VARIABLES
    parser_events,      \* OutlookEventParser.events
    processed_events,   \* OutlookEventParser.processed_events
    fed,                \* labels handed to handle_starttag so far, in order
    monthly_events,     \* first argument of merge_events
    weekly_events,      \* second argument of merge_events
    merged,             \* what merge_events returned (<<>> before the call)
    events,             \* main: the list handed to the export loop
    store,              \* the remote calendar: sequence of RemoteEvent, by id
    teams_link,         \* os.getenv('TEAMS_MEETING_LINK', '')
    pc,                 \* position of main
    run,                \* number of the current invocation of main
    idx,                \* 1-based position of the export loop
    created_count, updated_count, skipped_count, error_count,
    last,               \* record of the latest export_event call
    faults,             \* remote calls that have failed so far
    env,                \* what main finds: files, arguments, libraries, credentials
    service,            \* GoogleCalendarExporter.service is set (not None)
    input,              \* the pieces the label handed to parse_event_label is made of
    parsed              \* what parse_event_label returned for it

vars == <<parser_events, processed_events, fed, monthly_events, weekly_events,
          merged, events, store, teams_link, pc, run, idx, created_count,
          updated_count, skipped_count, error_count, last, faults, env, service,
          input, parsed>>

(***************************************************************************)
(* Bounds of the model.                                                    *)
(***************************************************************************)
MaxRuns == 2        \* invocations of main against the same store
MaxFaults == 1      \* remote calls that fail over all runs
MaxStore == 1       \* events the store holds before the first run
MaxMonthly == 2     \* records of the monthly (primary) view
MaxWeekly == 1      \* records of the weekly (secondary) view
MaxTags == 3        \* start tags of one document

(***************************************************************************)
(* Calendar dates: date.toordinal() of the proleptic Gregorian calendar.   *)
(***************************************************************************)
IsLeap(y) == (y % 4 = 0 /\ y % 100 # 0) \/ y % 400 = 0

DaysInMonth(y, m) ==
    IF m = 2 THEN (IF IsLeap(y) THEN 29 ELSE 28)
    ELSE IF m \in {4, 6, 9, 11} THEN 30 ELSE 31

RECURSIVE DaysBeforeMonth(_, _)
DaysBeforeMonth(y, m) ==
    IF m = 1 THEN 0 ELSE DaysBeforeMonth(y, m - 1) + DaysInMonth(y, m - 1)

Ordinal(y, m, d) ==
    365 * (y - 1) + ((y - 1) \div 4) - ((y - 1) \div 100) + ((y - 1) \div 400)
    + DaysBeforeMonth(y, m) + d

\* 1970-01-01, from which instants are counted in seconds
Epoch == Ordinal(1970, 1, 1)

(***************************************************************************)
(* Datetimes.                                                              *)
(***************************************************************************)
MinutesPerDay == 24 * 60

DT(day, hm) == [day |-> day, hm |-> hm, sec |-> 0]

\* datetime.isoformat(): date, hour, minute and second
isoformat(dt) == <<dt.day, dt.hm, dt.sec>>

\* strftime('%Y-%m-%d %H:%M') and strftime('%Y-%m-%dT%H:%M'): the second is dropped
strftime_minute(dt) == <<dt.day, dt.hm>>

\* strftime('%H:%M'): the date is dropped as well
strftime_hm(dt) == dt.hm

\* dateTime[:16] of a remote "YYYY-MM-DDTHH:MM:SS+hh:mm": second and offset are cut
prefix16(rdt) == <<rdt.day, rdt.hm>>

\* a remote dateTime that is absent (an all-day event has only 'date')
NoDateTime == [day |-> 0 - 1, hm |-> 0, sec |-> 0, offset |-> 0]

\* seconds since the epoch, of a naive datetime read as UTC (isoformat() + 'Z')
NaiveInstant(dt) == ((dt.day - Epoch) * MinutesPerDay + dt.hm) * 60 + dt.sec

\* the instant a remote dateTime denotes: local time minus its offset (minutes)
RemoteInstant(rdt) ==
    ((rdt.day - Epoch) * MinutesPerDay + rdt.hm - rdt.offset) * 60 + rdt.sec

\* timedelta(days=1) and timedelta(days=2) of the search window
SearchDaysBefore == 1
SearchDaysAfter == 2

\* the offset of args.timezone (America/Los_Angeles, daylight time), in minutes
TzOffset == 0 - 7 * 60

(***************************************************************************)
(* Text helpers.                                                           *)
(***************************************************************************)
\* needle in token, for the needles the program searches: a token holds a
\* needle when it is the needle or the needle followed by punctuation
WordHas(token, needle) ==
    \/ token = needle
    \/ needle = "Canceled" /\ token = "Canceled:"

\* needle in text, for a one-word needle
Contains(text, needle) == \E k \in 1..Len(text) : WordHas(text[k], needle)

Whitespace == {" ", "\n"}

\* str.strip()
RECURSIVE strip(_)
strip(text) ==
    IF text = <<>> THEN <<>>
    ELSE IF Head(text) \in Whitespace THEN strip(Tail(text))
    ELSE IF text[Len(text)] \in Whitespace THEN strip(SubSeq(text, 1, Len(text) - 1))
    ELSE text

\* str.lower() on the status and transparency words
lower(s) ==
    CASE s = "CONFIRMED" -> "confirmed"
      [] s = "Confirmed" -> "confirmed"
      [] s = "CANCELLED" -> "cancelled"
      [] s = "Cancelled" -> "cancelled"
      [] s = "TENTATIVE" -> "tentative"
      [] s = "Tentative" -> "tentative"
      [] s = "OPAQUE" -> "opaque"
      [] s = "TRANSPARENT" -> "transparent"
      [] OTHER -> s

\* x or default, for a string that may be absent ("" stands for None and '')
OrDefault(s, d) == IF s = "" THEN d ELSE s

(***************************************************************************)
(* OutlookEventParser.parse_event_label.  A label is a text in which the   *)
(* token "," stands for the delimiter ", ".                                *)
(***************************************************************************)
Comma == ","

\* label.split(", ")
RECURSIVE split(_)
split(label) ==
    IF \A k \in 1..Len(label) : label[k] # Comma THEN <<label>>
    ELSE LET k == CHOOSE j \in 1..Len(label) :
                      label[j] = Comma /\ \A i \in 1..(j - 1) : label[i] # Comma
         IN <<SubSeq(label, 1, k - 1)>> \o split(SubSeq(label, k + 1, Len(label)))

\* ", ".join(parts)
RECURSIVE join(_)
join(parts) ==
    IF parts = <<>> THEN <<>>
    ELSE IF Len(parts) = 1 THEN parts[1]
    ELSE parts[1] \o <<Comma>> \o join(Tail(parts))

\* the clock tokens the model reads, "H:MM" and "HH:MM", minute 60 included
ClockToken(h, m) == ToString(h) \o ":" \o (IF m < 10 THEN "0" ELSE "") \o ToString(m)

ClockTable ==
    LET pairs == (0..13) \X (0..60)
    IN [token \in {ClockToken(c[1], c[2]) : c \in pairs} |->
           CHOOSE c \in pairs : ClockToken(c[1], c[2]) = token]

\* (AM|PM) under re.IGNORECASE, and str.upper() of what it matched
upper(token) ==
    CASE token \in {"AM", "am", "Am", "aM"} -> "AM"
      [] token \in {"PM", "pm", "Pm", "pM"} -> "PM"
      [] token \in {"to", "TO", "To", "tO"} -> "TO"
      [] OTHER -> token

\* time_pattern matches the five tokens of part that begin at k
TimeAt(part, k) ==
    /\ k + 4 <= Len(part)
    /\ part[k] \in DOMAIN ClockTable
    /\ upper(part[k + 1]) \in {"AM", "PM"}
    /\ upper(part[k + 2]) = "TO"
    /\ part[k + 3] \in DOMAIN ClockTable
    /\ upper(part[k + 4]) \in {"AM", "PM"}

\* time_pattern.search(part): the leftmost match and its six groups
time_pattern_search(part) ==
    IF \A k \in 1..Len(part) : ~TimeAt(part, k) THEN [matched |-> FALSE]
    ELSE LET k == CHOOSE j \in 1..Len(part) :
                      TimeAt(part, j) /\ \A i \in 1..(j - 1) : ~TimeAt(part, i)
         IN [matched |-> TRUE,
             start_hour |-> ClockTable[part[k]][1], start_min |-> ClockTable[part[k]][2],
             start_ampm |-> part[k + 1],
             end_hour |-> ClockTable[part[k + 3]][1], end_min |-> ClockTable[part[k + 3]][2],
             end_ampm |-> part[k + 4]]

\* a conversion that adds 12 to every PM hour, noon included
To24HourNoNoon(hour, ampm) ==
    IF upper(ampm) = "PM" THEN hour + 12
    ELSE IF upper(ampm) = "AM" /\ hour = 12 THEN 0
    ELSE hour

\* lines 148-152 and 154-158
To24Hour(hour, ampm) ==
    IF upper(ampm) = "PM" /\ hour # 12 THEN hour + 12
    ELSE IF upper(ampm) = "AM" /\ hour = 12 THEN 0
    ELSE hour

MonthNames ==
    <<"January", "February", "March", "April", "May", "June", "July", "August",
      "September", "October", "November", "December">>

\* the four-digit years the model reads
ModelYears == 2024..2026

\* datetime.strptime(f"{month_day}, {year}", "%B %d, %Y"): the date, or a ValueError
strptime(month_day, year) ==
    IF /\ Len(month_day) = 2 /\ Len(year) = 1
       /\ \E m \in 1..12 : MonthNames[m] = month_day[1]
       /\ \E y \in ModelYears : ToString(y) = year[1]
       /\ \E d \in 1..31 : ToString(d) = month_day[2]
    THEN LET m == CHOOSE n \in 1..12 : MonthNames[n] = month_day[1]
             y == CHOOSE n \in ModelYears : ToString(n) = year[1]
             d == CHOOSE n \in 1..31 : ToString(n) = month_day[2]
         IN IF d <= DaysInMonth(y, m) THEN [ok |-> TRUE, day |-> Ordinal(y, m, d)]
            ELSE [ok |-> FALSE]
    ELSE [ok |-> FALSE]

\* part.startswith("By ")
StartsWithBy(part) == Len(part) >= 2 /\ part[1] = "By"

\* the first loop over the tail (lines 178-191): stops at the organizer
RECURSIVE ScanLocation(_, _)
ScanLocation(tail, location) ==
    IF tail = <<>> THEN [location |-> location, organizer |-> <<>>]
    ELSE LET part == Head(tail)
         IN IF StartsWithBy(part)
                THEN [location |-> location, organizer |-> strip(Tail(part))]
            ELSE IF Contains(part, "Teams")
                THEN ScanLocation(Tail(tail), strip(part))
            ELSE IF Contains(part, "Meeting") /\ location = <<>>
                THEN ScanLocation(Tail(tail), strip(part))
            ELSE ScanLocation(Tail(tail), location)

StatusWords == {<<"Tentative">>, <<"Busy">>, <<"Free">>, <<"Out", "of", "Office">>}

\* the second loop over the tail (lines 194-200): every hit is assigned
RECURSIVE ScanStatus(_, _, _)
ScanStatus(tail, status, event_type) ==
    IF tail = <<>> THEN [status |-> status, event_type |-> event_type]
    ELSE LET part == Head(tail)
         IN ScanStatus(Tail(tail),
                       IF part \in StatusWords THEN part ELSE status,
                       IF \/ Contains(part, "Recurring") \/ Contains(part, "Exception")
                          \/ Contains(part, "Canceled")
                       THEN part ELSE event_type)

\* is_canceled (line 203)
IsCanceled(event_name, event_type) ==
    Contains(event_name, "Canceled:") \/ Contains(event_type, "Canceled")

EventRecord(summary, start, end, organizer, status, event_type, location) ==
    [summary |-> summary, start |-> start, end |-> end, organizer |-> organizer,
     status |-> status, event_type |-> event_type,
     is_canceled |-> IsCanceled(summary, event_type), location |-> location]

NoMatch == [ok |-> FALSE]

\* the loop without its `break`: the index of the last part the time pattern matches
TimeIndexLast(parts) ==
    IF \A k \in 1..Len(parts) : ~time_pattern_search(parts[k]).matched THEN 0
    ELSE CHOOSE k \in 1..Len(parts) :
             /\ time_pattern_search(parts[k]).matched
             /\ \A i \in (k + 1)..Len(parts) : ~time_pattern_search(parts[i]).matched

\* the index of the first part the time pattern matches, 0 when there is none
TimeIndex(parts) ==
    IF \A k \in 1..Len(parts) : ~time_pattern_search(parts[k]).matched THEN 0
    ELSE CHOOSE k \in 1..Len(parts) :
             /\ time_pattern_search(parts[k]).matched
             /\ \A i \in 1..(k - 1) : ~time_pattern_search(parts[i]).matched

\* an exception raised inside the try block
Raised == [ok |-> FALSE, raised |-> "ValueError"]

\* the try block of parse_event_label: [ok |-> TRUE, event |-> the record], NoMatch
\* (return None), or Raised when strptime or datetime.replace raises ValueError
parse_event_label_try(label) ==
    LET parts == split(label)
        time_idx == TimeIndex(parts)
    IN IF Len(parts) < 5 THEN NoMatch
       ELSE IF time_idx = 0 THEN NoMatch
       ELSE IF time_idx + 3 > Len(parts) THEN NoMatch
       ELSE LET time_match == time_pattern_search(parts[time_idx])
                event_name == join(SubSeq(parts, 1, time_idx - 1))
                start_hour_24 == To24Hour(time_match.start_hour, time_match.start_ampm)
                end_hour_24 == To24Hour(time_match.end_hour, time_match.end_ampm)
                date_obj == strptime(strip(parts[time_idx + 2]), strip(parts[time_idx + 3]))
                tail == SubSeq(parts, time_idx + 4, Len(parts))
                where == ScanLocation(tail, <<>>)
                what == ScanStatus(tail, <<>>, <<>>)
            IN IF ~date_obj.ok THEN Raised
               ELSE IF start_hour_24 > 23 \/ time_match.start_min > 59 THEN Raised
               ELSE IF end_hour_24 > 23 \/ time_match.end_min > 59 THEN Raised
               ELSE [ok |-> TRUE,
                     event |-> EventRecord(
                         event_name,
                         DT(date_obj.day, start_hour_24 * 60 + time_match.start_min),
                         DT(date_obj.day, end_hour_24 * 60 + time_match.end_min),
                         where.organizer, what.status, what.event_type, where.location)]

\* parse_event_label without its except clause
parse_event_label_uncaught(label) == parse_event_label_try(label)

\* `except Exception`: a warning is printed and None is returned
except_Exception(result) == IF result = Raised THEN NoMatch ELSE result

parse_event_label(label) == except_Exception(parse_event_label_try(label))

(***************************************************************************)
(* OutlookEventParser.handle_starttag                                      *)
(***************************************************************************)
Weekdays == {"Monday", "Tuesday", "Wednesday", "Thursday", "Friday", "Saturday", "Sunday"}

\* the test of lines 101-104 on the raw label
LooksLikeEvent(aria_label) ==
    /\ \E k \in 1..Len(aria_label) : aria_label[k] = "to"
    /\ \E k \in 1..Len(aria_label) : aria_label[k] \in {"AM", "PM"}
    /\ \E k \in 1..Len(aria_label) : aria_label[k] \in Weekdays

\* the key of OutlookEventParser.processed_events
EventKey(event) == <<event.summary, isoformat(event.start)>>

\* a parser that appends without looking at processed_events
handle_starttag_unchecked(parser, tag, aria_label) ==
    IF tag # "div" THEN parser
    ELSE IF ~LooksLikeEvent(aria_label) THEN parser
    ELSE LET event_data == parse_event_label(aria_label)
         IN IF ~event_data.ok THEN parser
            ELSE [events |-> Append(parser.events, event_data.event),
                  processed_events |->
                      parser.processed_events \cup {EventKey(event_data.event)}]

\* the parser after one start tag; parser is [events, processed_events]
handle_starttag(parser, tag, aria_label) ==
    IF tag # "div" THEN parser
    ELSE IF ~LooksLikeEvent(aria_label) THEN parser
    ELSE LET event_data == parse_event_label(aria_label)
         IN IF ~event_data.ok THEN parser
            ELSE IF EventKey(event_data.event) \in parser.processed_events THEN parser
            ELSE [events |-> Append(parser.events, event_data.event),
                  processed_events |->
                      parser.processed_events \cup {EventKey(event_data.event)}]

(***************************************************************************)
(* ICSGenerator.add_event: the STATUS and TRANSP lines of the VEVENT.      *)
(***************************************************************************)
ics_status_map(status) ==
    CASE status = <<"Tentative">> -> "TENTATIVE"
      [] status = <<"Busy">> -> "CONFIRMED"
      [] status = <<"Free">> -> "CONFIRMED"
      [] status = <<"Out", "of", "Office">> -> "CONFIRMED"
      [] OTHER -> "CONFIRMED"

add_event(event) ==
    [status |-> IF event.is_canceled THEN "CANCELLED" ELSE ics_status_map(event.status),
     transp |-> IF event.status = <<"Free">> THEN "TRANSPARENT" ELSE "OPAQUE"]

(***************************************************************************)
(* The remote calendar.  A RemoteEvent is                                  *)
(*   [id, summary, start, end, description, location, status,              *)
(*    transparency]                                                        *)
(* with start and end remote dateTimes.  The store keeps them in a         *)
(* sequence, the id being the position; nothing is ever removed.           *)
(***************************************************************************)
\* what the store returns for a naive dateTime written with timeZone
StoredTime(iso) == [day |-> iso[1], hm |-> iso[2], sec |-> iso[3], offset |-> TzOffset]

StoredEvent(id, body) ==
    [id |-> id, summary |-> body.summary,
     start |-> StoredTime(body.start.dateTime), end |-> StoredTime(body.end.dateTime),
     description |-> body.description, location |-> body.location,
     status |-> body.status, transparency |-> body.transparency]

\* events().insert(body=...).execute() on success
StoreInsert(st, body) == Append(st, StoredEvent(Len(st) + 1, body))

\* a store that replaces its first event whatever the id
StoreUpdateFirst(st, id, body) ==
    [k \in 1..Len(st) |-> IF k = 1 THEN StoredEvent(st[k].id, body) ELSE st[k]]

\* events().update(eventId=..., body=...).execute() on success: the resource is replaced
StoreUpdate(st, id, body) ==
    [k \in 1..Len(st) |-> IF st[k].id = id THEN StoredEvent(id, body) ELSE st[k]]

\* orderBy='startTime': by start instant, equal starts by id
StartsBefore(a, b) ==
    \/ RemoteInstant(a.start) < RemoteInstant(b.start)
    \/ RemoteInstant(a.start) = RemoteInstant(b.start) /\ a.id <= b.id

RECURSIVE OrderByStart(_)
OrderByStart(evs) ==
    IF evs = {} THEN <<>>
    ELSE LET first == CHOOSE e \in evs : \A o \in evs : StartsBefore(e, o)
         IN <<first>> \o OrderByStart(evs \ {first})

\* events().list(timeMin, timeMax, singleEvents, orderBy='startTime', showDeleted=True):
\* every event, cancelled ones included, that ends after timeMin and starts before timeMax
ListEvents(st, time_min, time_max) ==
    OrderByStart({st[k] : k \in {j \in 1..Len(st) :
        /\ st[j].start # NoDateTime
        /\ RemoteInstant(st[j].end) > time_min
        /\ RemoteInstant(st[j].start) < time_max}})

(***************************************************************************)
(* GoogleCalendarExporter._find_existing_event                             *)
(***************************************************************************)
NoEvent == [id |-> 0]

\* the loop with the cancelled test applied to every record
RECURSIVE FirstMatchNeverCancelled(_, _)
FirstMatchNeverCancelled(event_data, found) ==
    IF found = <<>> THEN NoEvent
    ELSE LET event == Head(found)
         IN IF /\ event.status # "cancelled"
               /\ event.summary = event_data.summary
               /\ event.start # NoDateTime
               /\ prefix16(event.start) = strftime_minute(event_data.start)
            THEN event
            ELSE FirstMatchNeverCancelled(event_data, Tail(found))

\* the loop without its `return`: the last event that passes the tests
RECURSIVE LastMatch(_, _)
LastMatch(event_data, found) ==
    IF found = <<>> THEN NoEvent
    ELSE LET event == found[Len(found)]
             looking_for_cancelled == event_data.is_canceled
         IN IF /\ ~(event.status = "cancelled" /\ ~looking_for_cancelled)
               /\ event.summary = event_data.summary
               /\ event.start # NoDateTime
               /\ prefix16(event.start) = strftime_minute(event_data.start)
            THEN event
            ELSE LastMatch(event_data, SubSeq(found, 1, Len(found) - 1))

\* the loop without the comparison of the start times
RECURSIVE FirstMatchAnyStart(_, _)
FirstMatchAnyStart(event_data, found) ==
    IF found = <<>> THEN NoEvent
    ELSE LET event == Head(found)
         IN IF /\ ~(event.status = "cancelled" /\ ~event_data.is_canceled)
               /\ event.summary = event_data.summary
               /\ event.start # NoDateTime
            THEN event
            ELSE FirstMatchAnyStart(event_data, Tail(found))

\* the loop over the returned events: the first one that passes the three tests
RECURSIVE FirstMatch(_, _)
FirstMatch(event_data, found) ==
    IF found = <<>> THEN NoEvent
    ELSE LET event == Head(found)
             looking_for_cancelled == event_data.is_canceled
         IN IF event.status = "cancelled" /\ ~looking_for_cancelled
                THEN FirstMatch(event_data, Tail(found))
            ELSE IF event.summary # event_data.summary
                THEN FirstMatch(event_data, Tail(found))
            ELSE IF event.start = NoDateTime
                THEN FirstMatch(event_data, Tail(found))
            ELSE IF prefix16(event.start) = strftime_minute(event_data.start)
                THEN event
            ELSE FirstMatch(event_data, Tail(found))

\* list_call is "ok", "http" (HttpError) or "other" (any other exception, such as a
\* transport timeout).  The result says whether the call raised out of the method.
_find_existing_event(event_data, st, list_call) ==
    LET search_start == NaiveInstant(event_data.start) - SearchDaysBefore * MinutesPerDay * 60
        search_end == NaiveInstant(event_data.start) + SearchDaysAfter * MinutesPerDay * 60
    IN IF list_call = "http" THEN [raised |-> FALSE, event |-> NoEvent]
       ELSE IF list_call = "other" THEN [raised |-> TRUE, event |-> NoEvent]
       ELSE [raised |-> FALSE,
             event |-> FirstMatch(event_data, ListEvents(st, search_start, search_end))]

(***************************************************************************)
(* GoogleCalendarExporter._events_are_different                            *)
(***************************************************************************)
\* a description the remote event does not have: .get('description') is None
Missing == <<"None">>

\* (x or '') for a text that may be absent
OrEmpty(text) == IF text = Missing THEN <<>> ELSE text

\* the comparison without the test of the end time
\* the comparison with the location added to the compared fields
_events_are_different_location(existing_event, new_event_data, event_data) ==
    IF existing_event.summary # new_event_data.summary THEN TRUE
    ELSE IF existing_event.start = NoDateTime
            \/ prefix16(existing_event.start) # strftime_minute(event_data.start) THEN TRUE
    ELSE IF existing_event.end = NoDateTime
            \/ prefix16(existing_event.end) # strftime_minute(event_data.end) THEN TRUE
    ELSE IF strip(OrEmpty(existing_event.description))
            # strip(OrEmpty(new_event_data.description)) THEN TRUE
    ELSE IF existing_event.location # new_event_data.location THEN TRUE
    ELSE IF lower(OrDefault(existing_event.status, "confirmed"))
            # lower(OrDefault(new_event_data.status, "confirmed")) THEN TRUE
    ELSE IF lower(OrDefault(existing_event.transparency, "opaque"))
            # lower(OrDefault(new_event_data.transparency, "opaque")) THEN TRUE
    ELSE FALSE

\* the whole stored dateTime, offset included
whole(rdt) == <<rdt.day, rdt.hm, rdt.sec, rdt.offset>>

\* the comparison with the start taken whole instead of its first 16 characters
_events_are_different_whole_start(existing_event, new_event_data, event_data) ==
    IF existing_event.summary # new_event_data.summary THEN TRUE
    ELSE IF existing_event.start = NoDateTime
            \/ whole(existing_event.start) # new_event_data.start.dateTime THEN TRUE
    ELSE IF existing_event.end = NoDateTime
            \/ prefix16(existing_event.end) # strftime_minute(event_data.end) THEN TRUE
    ELSE IF strip(OrEmpty(existing_event.description))
            # strip(OrEmpty(new_event_data.description)) THEN TRUE
    ELSE IF lower(OrDefault(existing_event.status, "confirmed"))
            # lower(OrDefault(new_event_data.status, "confirmed")) THEN TRUE
    ELSE IF lower(OrDefault(existing_event.transparency, "opaque"))
            # lower(OrDefault(new_event_data.transparency, "opaque")) THEN TRUE
    ELSE FALSE

_events_are_different_no_end(existing_event, new_event_data, event_data) ==
    IF existing_event.summary # new_event_data.summary THEN TRUE
    ELSE IF existing_event.start = NoDateTime
            \/ prefix16(existing_event.start) # strftime_minute(event_data.start) THEN TRUE
    ELSE IF strip(OrEmpty(existing_event.description))
            # strip(OrEmpty(new_event_data.description)) THEN TRUE
    ELSE IF lower(OrDefault(existing_event.status, "confirmed"))
            # lower(OrDefault(new_event_data.status, "confirmed")) THEN TRUE
    ELSE IF lower(OrDefault(existing_event.transparency, "opaque"))
            # lower(OrDefault(new_event_data.transparency, "opaque")) THEN TRUE
    ELSE FALSE

_events_are_different(existing_event, new_event_data, event_data) ==
    IF existing_event.summary # new_event_data.summary THEN TRUE
    ELSE IF existing_event.start = NoDateTime
            \/ prefix16(existing_event.start) # strftime_minute(event_data.start) THEN TRUE
    ELSE IF existing_event.end = NoDateTime
            \/ prefix16(existing_event.end) # strftime_minute(event_data.end) THEN TRUE
    ELSE IF strip(OrEmpty(existing_event.description))
            # strip(OrEmpty(new_event_data.description)) THEN TRUE
    ELSE IF lower(OrDefault(existing_event.status, "confirmed"))
            # lower(OrDefault(new_event_data.status, "confirmed")) THEN TRUE
    ELSE IF lower(OrDefault(existing_event.transparency, "opaque"))
            # lower(OrDefault(new_event_data.transparency, "opaque")) THEN TRUE
    ELSE FALSE

(***************************************************************************)
(* GoogleCalendarExporter.export_event                                     *)
(***************************************************************************)
status_map(status) ==
    CASE status = <<"Tentative">> -> "tentative"
      [] status = <<"Busy">> -> "confirmed"
      [] status = <<"Free">> -> "confirmed"
      [] status = <<"Out", "of", "Office">> -> "confirmed"
      [] OTHER -> "confirmed"

TeamsHeading == <<"Microsoft", "Teams", "Meeting:", "\n">>

\* the body with the status taken from status_map alone
google_event_uncancelled(event_data, link) ==
    [summary |-> event_data.summary,
     start |-> [dateTime |-> isoformat(event_data.start)],
     end |-> [dateTime |-> isoformat(event_data.end)],
     description |-> IF event_data.organizer # <<>>
                     THEN <<"Organizer:">> \o event_data.organizer ELSE <<>>,
     location |-> event_data.location,
     status |-> status_map(event_data.status),
     transparency |-> IF event_data.status = <<"Free">> THEN "transparent" ELSE "opaque"]

\* the body built from the record (lines 576-624)
google_event(event_data, link) ==
    LET base == IF event_data.organizer # <<>>
                THEN <<"Organizer:">> \o event_data.organizer
                     \o (IF event_data.event_type # <<>>
                         THEN <<"\n", "Type:">> \o event_data.event_type ELSE <<>>)
                ELSE <<>>
        description == IF link = <<>> THEN base
                       ELSE IF base # <<>> THEN base \o <<"\n", "\n">> \o TeamsHeading \o link
                       ELSE TeamsHeading \o link
        location == IF event_data.location # <<>> THEN event_data.location
                    ELSE IF link # <<>> THEN <<"Microsoft", "Teams", "Meeting">>
                    ELSE <<>>
    IN [summary |-> event_data.summary,
        start |-> [dateTime |-> isoformat(event_data.start)],
        end |-> [dateTime |-> isoformat(event_data.end)],
        description |-> description,
        location |-> location,
        status |-> IF event_data.is_canceled THEN "cancelled"
                   ELSE status_map(event_data.status),
        transparency |-> IF event_data.status = <<"Free">> THEN "transparent" ELSE "opaque"]

\* one remote call: what was called, on which id (0: none), and how it ended
Op(name, id, result) == [op |-> name, id |-> id, result |-> result]

\* export_event with a failed write issued a second time
export_event_retry(event_data, st, link, list_call, write_call) ==
    LET body == google_event(event_data, link)
        found == _find_existing_event(event_data, st, list_call)
        existing_event == found.event
        listed == <<Op("list", 0, list_call)>>
        changed == existing_event.id # 0
                   /\ _events_are_different(existing_event, body, event_data)
        write == IF existing_event.id # 0
                 THEN Op("update", existing_event.id, write_call)
                 ELSE Op("insert", 0, write_call)
        res(action, ops, st2) ==
            [action |-> action, ops |-> ops, store |-> st2, candidate |-> existing_event.id]
    IN IF found.raised THEN res("raise", listed, st)
       ELSE IF existing_event.id # 0 /\ ~changed THEN res("skipped", listed, st)
       ELSE IF write_call = "http" THEN res("error", listed \o <<write, write>>, st)
       ELSE IF write_call = "other" THEN res("raise", listed \o <<write>>, st)
       ELSE IF changed
            THEN res("updated", listed \o <<write>>, StoreUpdate(st, existing_event.id, body))
       ELSE res("created", listed \o <<write>>, StoreInsert(st, body))

\* The whole call.  list_call and write_call say how the remote calls of this call end:
\* "ok", "http" or "other".  action is the first component of the returned tuple, or
\* "raise" when an exception leaves the method; ops are the remote calls issued, in
\* order; candidate is the id of the event the matching step returned (0: none).
export_event(event_data, st, link, list_call, write_call) ==
    LET body == google_event(event_data, link)
        found == _find_existing_event(event_data, st, list_call)
        existing_event == found.event
        listed == <<Op("list", 0, list_call)>>
        res(action, ops, st2) ==
            [action |-> action, ops |-> ops, store |-> st2, candidate |-> existing_event.id]
    IN IF found.raised THEN res("raise", listed, st)
       ELSE IF existing_event.id # 0
       THEN IF _events_are_different(existing_event, body, event_data)
            THEN LET ops == listed \o <<Op("update", existing_event.id, write_call)>>
                 IN IF write_call = "http" THEN res("error", ops, st)
                    ELSE IF write_call = "other" THEN res("raise", ops, st)
                    ELSE res("updated", ops, StoreUpdate(st, existing_event.id, body))
            ELSE res("skipped", listed, st)
       ELSE LET ops == listed \o <<Op("insert", 0, write_call)>>
            IN IF write_call = "http" THEN res("error", ops, st)
               ELSE IF write_call = "other" THEN res("raise", ops, st)
               ELSE res("created", ops, StoreInsert(st, body))

(***************************************************************************)
(* merge_events                                                            *)
(***************************************************************************)
\* the key of both lookups: (summary, start to the minute, end time of day)
MergeKey(event) == <<event.summary, strftime_minute(event.start), strftime_hm(event.end)>>

\* weekly_lookup[key]: a later weekly event replaces an earlier one with the same key
RECURSIVE weekly_lookup(_, _)
weekly_lookup(weekly, key) ==
    IF weekly = <<>> THEN [found |-> FALSE]
    ELSE LET n == Len(weekly)
         IN IF MergeKey(weekly[n]) = key THEN [found |-> TRUE, event |-> weekly[n]]
            ELSE weekly_lookup(SubSeq(weekly, 1, n - 1), key)

\* an enhancement that takes the weekly location whenever there is one
EnhanceOverwriting(event, weekly) ==
    LET hit == weekly_lookup(weekly, MergeKey(event))
    IN IF ~hit.found THEN event
       ELSE LET with_location ==
                    IF hit.event.location # <<>>
                    THEN [event EXCEPT !.location = hit.event.location] ELSE event
            IN IF hit.event.organizer # <<>> /\ with_location.organizer = <<>>
               THEN [with_location EXCEPT !.organizer = hit.event.organizer]
               ELSE with_location

\* one monthly event after the enhancement step
Enhance(event, weekly) ==
    LET hit == weekly_lookup(weekly, MergeKey(event))
    IN IF ~hit.found THEN event
       ELSE LET with_location ==
                    IF hit.event.location # <<>> /\ event.location = <<>>
                    THEN [event EXCEPT !.location = hit.event.location] ELSE event
            IN IF hit.event.organizer # <<>> /\ with_location.organizer = <<>>
               THEN [with_location EXCEPT !.organizer = hit.event.organizer]
               ELSE with_location

\* the second loop without its test: every weekly event is appended
WeeklyAll(weekly, monthly_keys) == weekly

RECURSIVE WeeklyOnly(_, _)
WeeklyOnly(weekly, monthly_keys) ==
    IF weekly = <<>> THEN <<>>
    ELSE (IF MergeKey(Head(weekly)) \notin monthly_keys THEN <<Head(weekly)>> ELSE <<>>)
         \o WeeklyOnly(Tail(weekly), monthly_keys)

merge_events(monthly, weekly) ==
    LET enhanced_events == [k \in 1..Len(monthly) |-> Enhance(monthly[k], weekly)]
        monthly_keys == {MergeKey(enhanced_events[k]) : k \in 1..Len(monthly)}
    IN enhanced_events \o WeeklyOnly(weekly, monthly_keys)

(***************************************************************************)
(* The records and remote events the model draws from.                     *)
(***************************************************************************)
SeqsUpTo(S, n) == UNION {[1..k -> S] : k \in 0..n}

\* lists one OutlookEventParser can hold: no key twice
Deduplicated(S, n) ==
    {l \in SeqsUpTo(S, n) :
        \A a, b \in 1..Len(l) : a # b => EventKey(l[a]) # EventKey(l[b])}

Sep29 == Ordinal(2025, 9, 29)
Nine == DT(Sep29, 9 * 60)
Ten == DT(Sep29, 10 * 60)
Eleven == DT(Sep29, 11 * 60)

SyncRecords ==
    {EventRecord(s, Nine, e, <<>>, <<"Busy">>, <<>>, <<>>) :
        s \in {<<"X">>, <<"Canceled:", "X">>}, e \in {Ten, Eleven}}

\* what main can hand to the export loop: one view, or two views merged; never empty
SyncLists ==
    {merge_events(m, w) : m \in Deduplicated(SyncRecords, MaxMonthly),
                          w \in Deduplicated(SyncRecords, MaxWeekly)} \ {<<>>}

InitialRemote(summary, end, status) ==
    [summary |-> summary, start |-> StoredTime(isoformat(Nine)),
     end |-> StoredTime(isoformat(end)), description |-> <<>>, location |-> <<>>,
     status |-> status, transparency |-> "opaque"]

SyncRemotes ==
    {InitialRemote(s, Ten, t) : s \in {<<"X">>, <<"Canceled:", "X">>},
                                t \in {"confirmed", "cancelled"}}

\* stores whose events carry their position as id
SyncStores ==
    {[k \in 1..Len(l) |-> [id |-> k] @@ l[k]] : l \in SeqsUpTo(SyncRemotes, MaxStore)}

(***************************************************************************)
(* The export loop of main, run MaxRuns times against the same store.      *)
(***************************************************************************)
NoCall == [action |-> "none", ops |-> <<>>, candidate |-> 0, record |-> 0, before |-> <<>>]

Calls == {"ok", "http", "other"}

Failed(ops) == \E k \in 1..Len(ops) : ops[k].result # "ok"

NoParser == parser_events = <<>> /\ processed_events = {} /\ fed = <<>>

\* no label has been handed to parse_event_label on its own
NoInput == [name |-> <<>>]

NoLabel == input = NoInput /\ parsed = NoMatch

\* what main finds when nothing is wrong
GoodEnv ==
    [input_exists |-> TRUE, input_readable |-> TRUE, html_found |-> TRUE,
     google |-> TRUE, libs |-> TRUE, credentials_exists |-> TRUE, auth_ok |-> TRUE,
     calendar_ok |-> TRUE]

\* main has not reached the export
NoSetup == env = GoodEnv /\ service = FALSE

\* main has authenticated and chosen the calendar
Configured == env = GoodEnv /\ service = TRUE

NoMerge == monthly_events = <<>> /\ weekly_events = <<>> /\ merged = <<>>

NoExport ==
    /\ events = <<>> /\ store = <<>> /\ teams_link = <<>> /\ run = 0 /\ idx = 0
    /\ created_count = 0 /\ updated_count = 0 /\ skipped_count = 0 /\ error_count = 0
    /\ last = NoCall /\ faults = 0

Init ==
    /\ NoParser /\ NoMerge /\ NoLabel /\ Configured
    /\ events \in SyncLists
    /\ store \in SyncStores
    /\ teams_link = <<>>          \* TEAMS_MEETING_LINK is not set
    /\ pc = "export" /\ run = 1 /\ idx = 1
    /\ created_count = 0 /\ updated_count = 0 /\ skipped_count = 0 /\ error_count = 0
    /\ last = NoCall /\ faults = 0

\* one iteration of `for i, event in enumerate(events)`: the call and the counting;
\* an exception that leaves export_event is caught by main's `except Exception`,
\* which ends the run
ExportNext(list_call, write_call) ==
    /\ pc = "export"
    /\ \E r \in {export_event(events[idx], store, teams_link, list_call, write_call)} :
       LET failed == IF Failed(r.ops) THEN 1 ELSE 0
       IN /\ faults + failed <= MaxFaults
          /\ faults' = faults + failed
          /\ store' = r.store
          /\ last' = [action |-> r.action, ops |-> r.ops, candidate |-> r.candidate,
                      record |-> idx, before |-> store]
          /\ created_count' = created_count + (IF r.action = "created" THEN 1 ELSE 0)
          /\ updated_count' = updated_count + (IF r.action = "updated" THEN 1 ELSE 0)
          /\ skipped_count' = skipped_count + (IF r.action = "skipped" THEN 1 ELSE 0)
          /\ error_count' = error_count + (IF r.action = "error" THEN 1 ELSE 0)
          /\ IF r.action = "raise" THEN pc' = "aborted" /\ idx' = idx
             ELSE /\ idx' = idx + 1
                  /\ pc' = IF idx = Len(events) THEN "done" ELSE "export"
    /\ UNCHANGED <<parser_events, processed_events, fed, monthly_events, weekly_events,
                   merged, events, teams_link, run, env, service, input, parsed>>

\* the program is started again on the same input, nobody having touched the store
StartRun ==
    /\ pc \in {"done", "aborted"}
    /\ run < MaxRuns
    /\ run' = run + 1
    /\ pc' = "export" /\ idx' = 1
    /\ created_count' = 0 /\ updated_count' = 0 /\ skipped_count' = 0 /\ error_count' = 0
    /\ last' = NoCall
    /\ UNCHANGED <<parser_events, processed_events, fed, monthly_events, weekly_events,
                   merged, events, store, teams_link, faults, env, service, input,
                   parsed>>

Next ==
    \/ \E list_call \in Calls, write_call \in Calls : ExportNext(list_call, write_call)
    \/ StartRun

Spec == Init /\ [][Next]_vars

(***************************************************************************)
(* Properties of the reconciliation.                                       *)
(***************************************************************************)
Called == last.action # "none"

\* the record the latest call was about
LastRecord == events[last.record]

\* how many remote calls of one kind the latest call issued
NumOps(name) == Cardinality({k \in 1..Len(last.ops) : last.ops[k].op = name})

\* the latest call had a remote call end this way
LastHad(result) == \E k \in 1..Len(last.ops) : last.ops[k].result = result

\* a remote event in the record's slot: same summary, same start minute
SameSlot(event, event_data) ==
    /\ event.summary = event_data.summary
    /\ event.start # NoDateTime
    /\ prefix16(event.start) = strftime_minute(event_data.start)

\* C1: in a second (or later) run over the same list, no call having failed and
\* nobody else having written to the store, every outcome is skipped.
C1_SecondRunAllSkipped ==
    (run >= 2 /\ faults = 0 /\ Called) => last.action = "skipped"

\* C2: an insert is never issued while the store holds a non-cancelled event in the
\* record's slot.
C2_NoInsertOverExisting ==
    (Called /\ NumOps("insert") > 0) =>
        ~\E k \in 1..Len(last.before) :
            /\ SameSlot(last.before[k], LastRecord)
            /\ last.before[k].status # "cancelled"

\* C3: a call whose list or write was answered with a failure by the store has
\* outcome error.
C3_StoreFailureIsError ==
    (Called /\ LastHad("http")) => last.action = "error"

\* C4: the export loop is never left before the last record, and when it is over
\* every record has been counted once.
C4_EveryRecordCounted ==
    (pc \in {"done", "aborted"}) =>
        /\ idx = Len(events) + 1
        /\ created_count + updated_count + skipped_count + error_count = Len(events)

\* C5: a transport timeout in a call gives that call the outcome error and the loop
\* goes on with the next record.
C5_TimeoutIsError ==
    (Called /\ LastHad("other")) =>
        /\ last.action = "error"
        /\ pc # "aborted"
        /\ idx = last.record + 1

\* C6: one call issues at most one list and at most one write, whatever its outcome.
C6_OneQueryOneWrite ==
    Called => /\ NumOps("list") <= 1
              /\ NumOps("insert") + NumOps("update") <= 1

\* a write failed and nothing followed it
C6_Witness ==
    /\ last.action = "error"
    /\ Len(last.ops) = 2
    /\ last.ops[2].result = "http"

\* C7: created is one insert and no update; updated is one update, of the candidate
\* the matching step returned, and no insert; skipped is no write and the same store.
C7_OutcomeMatchesEffect ==
    /\ last.action = "created" =>
          /\ NumOps("insert") = 1 /\ NumOps("update") = 0
          /\ Len(store) = Len(last.before) + 1
          /\ SubSeq(store, 1, Len(last.before)) = last.before
    /\ last.action = "updated" =>
          /\ NumOps("update") = 1 /\ NumOps("insert") = 0
          /\ last.candidate # 0
          /\ \A k \in 1..Len(last.ops) :
                last.ops[k].op = "update" => last.ops[k].id = last.candidate
          /\ Len(store) = Len(last.before)
          /\ \A k \in 1..Len(store) : k # last.candidate => store[k] = last.before[k]
          /\ SameSlot(last.before[last.candidate], LastRecord)
    /\ last.action = "skipped" =>
          /\ NumOps("insert") = 0 /\ NumOps("update") = 0
          /\ store = last.before

\* an update that left another event of the store alone
C7_Witness ==
    /\ last.action = "updated"
    /\ Len(store) >= 2
    /\ store[last.candidate] # last.before[last.candidate]

\* what the list call of the latest call returned
LastQueryResult ==
    ListEvents(last.before,
               NaiveInstant(LastRecord.start) - SearchDaysBefore * MinutesPerDay * 60,
               NaiveInstant(LastRecord.start) + SearchDaysAfter * MinutesPerDay * 60)

\* C8: for a cancelled record, when the query result holds an event in the record's
\* slot, cancelled or not, no insert is issued: the outcome is skipped or updated
\* (error or an exception only when the update itself failed).
C8_CancelledNeverCreated ==
    (/\ Called
     /\ LastRecord.is_canceled
     /\ last.ops[1].result = "ok"
     /\ \E k \in 1..Len(LastQueryResult) : SameSlot(LastQueryResult[k], LastRecord)) =>
        /\ NumOps("insert") = 0
        /\ last.candidate # 0
        /\ last.action \in {"skipped", "updated"} \/ Failed(last.ops)

\* a cancelled record matched a cancelled remote event and was skipped
C8_Witness ==
    /\ last.action = "skipped"
    /\ LastRecord.is_canceled
    /\ last.before[last.candidate].status = "cancelled"

(***************************************************************************)
(* One OutlookEventParser fed a document: a start tag at a time.           *)
(***************************************************************************)
Slot730 == <<"7:30", "AM", "to", "8:00", "AM", Comma, "Monday", Comma,
             "September", "29", Comma, "2025">>

\* "Daily Sync, 7:30 AM to 8:00 AM, Monday, September 29, 2025, By Jane Doe,
\*  Tentative, Recurring event"
LabelDaily ==
    <<"Daily", "Sync", Comma>> \o Slot730
    \o <<Comma, "By", "Jane", "Doe", Comma, "Tentative", Comma, "Recurring", "event">>

\* the same event as another layer renders it
LabelDailyAgain ==
    <<"Daily", "Sync", Comma>> \o Slot730
    \o <<Comma, "Microsoft", "Teams", "Meeting", Comma, "By", "Jane", "Doe", Comma, "Busy">>

\* the same name at another time
LabelDailyTuesday ==
    <<"Daily", "Sync", Comma, "9:00", "AM", "to", "9:30", "AM", Comma, "Tuesday", Comma,
      "September", "30", Comma, "2025">>

\* another name at the same time
LabelBudget ==
    <<"Canceled:", "Budget", "Review", Comma>> \o Slot730 \o <<Comma, "By", "Bob">>

\* a name with a comma in it
LabelComma ==
    <<"Review", Comma, "Q3", Comma, "2:00", "PM", "to", "3:00", "PM", Comma, "Wednesday",
      Comma, "October", "1", Comma, "2025", Comma, "Free">>

\* a date that does not exist
LabelBadDate ==
    <<"Daily", "Sync", Comma, "7:30", "AM", "to", "8:00", "AM", Comma, "Monday", Comma,
      "September", "31", Comma, "2025", Comma, "By", "Bob">>

\* no time range
LabelNoTime == <<"Notes", Comma, "Monday", Comma, "September", "29", Comma, "2025">>

ParseLabels ==
    {LabelDaily, LabelDailyAgain, LabelDailyTuesday, LabelBudget, LabelComma,
     LabelBadDate, LabelNoTime}

Tags == {"div", "span"}

ParseInit ==
    /\ NoParser /\ NoMerge /\ NoExport /\ NoLabel /\ NoSetup
    /\ pc = "parse"

\* HTMLParser.feed calls handle_starttag for the next start tag of the document
HandleStartTag(tag, aria_label) ==
    /\ pc = "parse"
    /\ Len(fed) < MaxTags
    /\ \E after \in {handle_starttag([events |-> parser_events,
                                      processed_events |-> processed_events],
                                     tag, aria_label)} :
          /\ parser_events' = after.events
          /\ processed_events' = after.processed_events
    /\ fed' = Append(fed, [tag |-> tag, label |-> aria_label])
    /\ UNCHANGED <<monthly_events, weekly_events, merged, events, store, teams_link, pc,
                   run, idx, created_count, updated_count, skipped_count, error_count,
                   last, faults, env, service, input, parsed>>

ParseNext == \E tag \in Tags, aria_label \in ParseLabels : HandleStartTag(tag, aria_label)

ParseSpec == ParseInit /\ [][ParseNext]_vars

\* a start tag that yields a record: a div whose label passes the test of
\* handle_starttag and parses
Accepted(t) ==
    t.tag = "div" /\ LooksLikeEvent(t.label) /\ parse_event_label(t.label).ok

\* the records of the accepted start tags, in document order
RECURSIVE ParsedOf(_)
ParsedOf(tags) ==
    IF tags = <<>> THEN <<>>
    ELSE (IF Accepted(Head(tags)) THEN <<parse_event_label(Head(tags).label).event>>
          ELSE <<>>) \o ParsedOf(Tail(tags))

KeysOf(list) == {EventKey(list[k]) : k \in 1..Len(list)}

\* the positions of list whose key no earlier position has
FirstOfKey(list) ==
    {k \in 1..Len(list) : \A i \in 1..(k - 1) : EventKey(list[i]) # EventKey(list[k])}

\* C9: the events list holds no key twice; it is the first-seen record of every key,
\* in first-seen order; processed_events is the set of its keys; and a document that
\* is one accepted label rendered N times gives one record.
C9_Deduplicated ==
    LET replay == ParsedOf(fed)
        first == FirstOfKey(replay)
    IN /\ \A a, b \in 1..Len(parser_events) :
             a # b => EventKey(parser_events[a]) # EventKey(parser_events[b])
       /\ Len(parser_events) = Cardinality(first)
       /\ \A k \in 1..Len(parser_events) :
             \E j \in first :
                /\ parser_events[k] = replay[j]
                /\ Cardinality({i \in first : i <= j}) = k
       /\ processed_events = KeysOf(parser_events)
       /\ (/\ fed # <<>>
           /\ \A k \in 1..Len(fed) : fed[k] = fed[1]
           /\ Accepted(fed[1])) => Len(parser_events) = 1

\* the same event was rendered twice with different details: the first one stayed
C9_Witness ==
    /\ Len(fed) >= 2
    /\ fed[1].label = LabelDaily /\ fed[2].label = LabelDailyAgain
    /\ Len(ParsedOf(fed)) = 2
    /\ Len(parser_events) = 1
    /\ parser_events[1].status = <<"Tentative">>

(***************************************************************************)
(* merge_events on two deduplicated views.                                 *)
(***************************************************************************)
MergeMonthlyRecords ==
    {EventRecord(s, Nine, Ten, o, <<"Busy">>, <<>>, l) :
        s \in {<<"X">>, <<"Y">>}, o \in {<<>>, <<"Ann">>},
        l \in {<<>>, <<"Teams">>}}

MergeWeeklyRecords ==
    {EventRecord(s, Nine, e, o, <<"Tentative">>, <<"Canceled">>, l) :
        s \in {<<"X">>, <<"Y">>}, e \in {Ten, Eleven}, o \in {<<>>, <<"Bob">>},
        l \in {<<>>, <<"Room", "4">>}}

MergeInit ==
    /\ NoParser /\ NoExport /\ NoLabel /\ NoSetup
    /\ monthly_events \in Deduplicated(MergeMonthlyRecords, MaxMonthly)
    /\ weekly_events \in Deduplicated(MergeWeeklyRecords, MaxWeekly)
    /\ merged = <<>>
    /\ pc = "merge"

\* events = merge_events(monthly_events, weekly_events): the monthly records are
\* enhanced in place, so parser.events sees the new values too
Merge ==
    /\ pc = "merge"
    /\ merged' = merge_events(monthly_events, weekly_events)
    /\ monthly_events' = [k \in 1..Len(monthly_events) |->
                             Enhance(monthly_events[k], weekly_events)]
    /\ pc' = "merged"
    /\ UNCHANGED <<parser_events, processed_events, fed, weekly_events, events, store,
                   teams_link, run, idx, created_count, updated_count, skipped_count,
                   error_count, last, faults, env, service, input, parsed>>

MergeNext == Merge

MergeSpec == MergeInit /\ [][MergeNext]_vars

\* C10: the call leaves every non-empty location and organizer of a monthly record as
\* it was, and never touches its summary, start, end, status, event_type or
\* is_canceled, whether a weekly record has its key or not.
C10_PrimaryKept ==
    [][(pc = "merge" /\ pc' = "merged") =>
          /\ Len(merged') >= Len(monthly_events)
          /\ \A k \in 1..Len(monthly_events) :
                LET before == monthly_events[k]
                    after == merged'[k]
                IN /\ before.location # <<>> => after.location = before.location
                   /\ before.organizer # <<>> => after.organizer = before.organizer
                   /\ after.summary = before.summary
                   /\ after.start = before.start /\ after.end = before.end
                   /\ after.status = before.status
                   /\ after.event_type = before.event_type
                   /\ after.is_canceled = before.is_canceled]_vars

\* a monthly record kept its own location and organizer although the weekly record of
\* the same key has others
C10_Witness ==
    /\ pc = "merged"
    /\ \E k \in 1..Len(monthly_events) :
          LET hit == weekly_lookup(weekly_events, MergeKey(merged[k]))
          IN /\ hit.found
             /\ merged[k].location = <<"Teams">> /\ hit.event.location = <<"Room", "4">>
             /\ merged[k].organizer = <<"Ann">> /\ hit.event.organizer = <<"Bob">>
             /\ merged[k].status = <<"Busy">>

(***************************************************************************)
(* main from its first check to the end of the export.                     *)
(***************************************************************************)
Envs ==
    [input_exists : BOOLEAN, input_readable : BOOLEAN, html_found : BOOLEAN,
     google : BOOLEAN, libs : BOOLEAN, credentials_exists : BOOLEAN, auth_ok : BOOLEAN,
     calendar_ok : BOOLEAN]

\* what parsing and merging the input can give main: nothing, one record, two records
SetupLists ==
    {<<>>,
     <<EventRecord(<<"X">>, Nine, Ten, <<>>, <<"Busy">>, <<>>, <<>>)>>,
     <<EventRecord(<<"X">>, Nine, Ten, <<>>, <<"Busy">>, <<>>, <<>>),
       EventRecord(<<"Canceled:", "X">>, Nine, Eleven, <<>>, <<"Free">>, <<>>, <<>>)>>}

SetupStores ==
    {<<>>, <<[id |-> 1] @@ InitialRemote(<<"X">>, Ten, "confirmed")>>}

\* GoogleCalendarExporter.authenticate without the test of the credentials file
authenticate_unchecked(e) ==
    IF ~e.libs THEN [raised |-> "ImportError", service |-> FALSE]
    ELSE IF ~e.auth_ok THEN [raised |-> "Exception", service |-> FALSE]
    ELSE [raised |-> "none", service |-> TRUE]

\* GoogleCalendarExporter.authenticate: what it raises, and whether self.service is set
authenticate(e) ==
    IF ~e.libs THEN [raised |-> "ImportError", service |-> FALSE]
    ELSE IF ~e.credentials_exists THEN [raised |-> "FileNotFoundError", service |-> FALSE]
    ELSE IF ~e.auth_ok THEN [raised |-> "Exception", service |-> FALSE]
    ELSE [raised |-> "none", service |-> TRUE]

SetupInit ==
    /\ NoParser /\ NoMerge /\ NoLabel
    /\ env \in Envs
    /\ service = FALSE
    /\ events = <<>>
    /\ store \in SetupStores
    /\ teams_link = <<>>
    /\ pc = "check_input" /\ run = 1 /\ idx = 1
    /\ created_count = 0 /\ updated_count = 0 /\ skipped_count = 0 /\ error_count = 0
    /\ last = NoCall /\ faults = 0

\* `if not input_file.exists(): sys.exit(1)`
CheckInput ==
    /\ pc = "check_input"
    /\ pc' = IF env.input_exists THEN "read_input" ELSE "exit"
    /\ UNCHANGED <<parser_events, processed_events, fed, monthly_events, weekly_events,
                   merged, events, store, teams_link, run, idx, created_count,
                   updated_count, skipped_count, error_count, last, faults, env, service,
                   input, parsed>>

\* reading the file: an exception while reading, or no content, ends the run
ReadInput ==
    /\ pc = "read_input"
    /\ pc' = IF env.input_readable /\ env.html_found THEN "parse_input" ELSE "exit"
    /\ UNCHANGED <<parser_events, processed_events, fed, monthly_events, weekly_events,
                   merged, events, store, teams_link, run, idx, created_count,
                   updated_count, skipped_count, error_count, last, faults, env, service,
                   input, parsed>>

\* parsing (and merging) gives the list `events`; `if not events: sys.exit(1)`
ParseInput ==
    /\ pc = "parse_input"
    /\ events' \in SetupLists
    /\ pc' = IF events' = <<>> THEN "exit" ELSE "choose_export"
    /\ UNCHANGED <<parser_events, processed_events, fed, monthly_events, weekly_events,
                   merged, store, teams_link, run, idx, created_count, updated_count,
                   skipped_count, error_count, last, faults, env, service, input, parsed>>

\* `if args.google:` with the test of the libraries; otherwise the ICS file is written
ChooseExport ==
    /\ pc = "choose_export"
    /\ pc' = IF ~env.google THEN "ics" ELSE IF ~env.libs THEN "exit" ELSE "authenticate"
    /\ UNCHANGED <<parser_events, processed_events, fed, monthly_events, weekly_events,
                   merged, events, store, teams_link, run, idx, created_count,
                   updated_count, skipped_count, error_count, last, faults, env, service,
                   input, parsed>>

\* exporter.authenticate() inside main's try: both except clauses end the run
Authenticate ==
    /\ pc = "authenticate"
    /\ \E r \in {authenticate(env)} :
          /\ service' = r.service
          /\ pc' = IF r.raised = "none" THEN "choose_calendar" ELSE "exit"
    /\ UNCHANGED <<parser_events, processed_events, fed, monthly_events, weekly_events,
                   merged, events, store, teams_link, run, idx, created_count,
                   updated_count, skipped_count, error_count, last, faults, env, input,
                   parsed>>

\* the calendar id: given, primary, or create_calendar, which may return None
ChooseCalendar ==
    /\ pc = "choose_calendar"
    /\ pc' = IF env.calendar_ok THEN "export" ELSE "exit"
    /\ UNCHANGED <<parser_events, processed_events, fed, monthly_events, weekly_events,
                   merged, events, store, teams_link, run, idx, created_count,
                   updated_count, skipped_count, error_count, last, faults, env, service,
                   input, parsed>>

\* after the loop: `success = (created + updated + skipped) > 0`; an exception that
\* left the loop has reached `except Exception`
Finish ==
    /\ pc \in {"done", "aborted"}
    /\ pc' = IF pc = "done" /\ created_count + updated_count + skipped_count > 0
             THEN "success" ELSE "exit"
    /\ UNCHANGED <<parser_events, processed_events, fed, monthly_events, weekly_events,
                   merged, events, store, teams_link, run, idx, created_count,
                   updated_count, skipped_count, error_count, last, faults, env, service,
                   input, parsed>>

SetupNext ==
    \/ CheckInput
    \/ ReadInput
    \/ ParseInput
    \/ ChooseExport
    \/ Authenticate
    \/ ChooseCalendar
    \/ \E list_call \in Calls, write_call \in Calls : ExportNext(list_call, write_call)
    \/ Finish

SetupSpec == SetupInit /\ [][SetupNext]_vars

\* the input file is missing or cannot be read, or the Google export is asked for and
\* the credentials file is missing
ConfigFailure ==
    \/ ~env.input_exists
    \/ ~env.input_readable
    \/ env.google /\ ~env.credentials_exists

\* main is at or past the export loop
Exporting == pc \in {"export", "done", "aborted", "success"}

\* C11: with a missing or unreadable input file or a missing credentials file the run
\* never gets to the calendar or the export loop and no export_event call (so no list,
\* insert or update) is ever made; a missing or unreadable input gives no ICS file
\* either; and an export_event call is only ever made with the service that a
\* successful authentication has set.
C11_ConfigFailureFatal ==
    /\ ConfigFailure =>
          /\ ~Called /\ faults = 0
          /\ ~Exporting /\ pc # "choose_calendar"
    /\ (~env.input_exists \/ ~env.input_readable) => pc # "ics"
    /\ (Called \/ Exporting) =>
          /\ service
          /\ env.libs /\ env.credentials_exists /\ env.auth_ok

\* the run got as far as authenticate with records to export, found no credentials
\* file and ended
C11_Witness ==
    /\ pc = "exit"
    /\ env.input_exists /\ env.input_readable /\ env.html_found
    /\ env.google /\ env.libs /\ ~env.credentials_exists
    /\ events # <<>>
    /\ ~service /\ ~Called

(***************************************************************************)
(* parse_event_label on its own: a label is put together from its pieces   *)
(* (name segments, time range, weekday, month and day, year, tail          *)
(* segments), rendered as Outlook renders it, and parsed.                   *)
(***************************************************************************)
MaxName == 2
MaxTail == 3

\* "H:MM AM to H:MM PM"; sep is the word between the two times
TimeSegment(time) ==
    <<ClockToken(time.sh, time.sm), time.sap, time.sep, ClockToken(time.eh, time.em),
      time.eap>>

\* the label of the pieces i
Render(i) ==
    join(i.name \o <<TimeSegment(i.time), i.weekday, i.month_day, i.year>> \o i.tail)

Clock(sh, sm, sap, eh, em, eap) ==
    [sh |-> sh, sm |-> sm, sap |-> sap, sep |-> "to", eh |-> eh, em |-> em, eap |-> eap]

\* "X, 9:00 AM to 10:00 AM, Monday, September 29, 2025, Busy"
BaseInput ==
    [name |-> << <<"X">> >>, time |-> Clock(9, 0, "AM", 10, 0, "AM"),
     weekday |-> <<"Monday">>, month_day |-> <<"September", "29">>, year |-> <<"2025">>,
     tail |-> << <<"Busy">> >>]

\* every hour and both markers on either side; the marker in lower case too
ClockInputs ==
    {[BaseInput EXCEPT !.time = Clock(sh, sm, sap, eh, em, eap)] :
        sh \in 1..12, sm \in {0, 30}, sap \in {"AM", "PM", "pm"},
        eh \in 1..12, em \in {0, 30}, eap \in {"AM", "PM"}}

\* times no clock shows, and a range the pattern does not match
OddClockInputs ==
    {[BaseInput EXCEPT !.time = Clock(sh, sm, "PM", 10, em, eap)] :
        sh \in {0, 9, 13}, sm \in {0, 60}, em \in {0, 60}, eap \in {"AM", "PM"}}
    \cup {[BaseInput EXCEPT !.time.sep = "until"]}

TailSegments ==
    {<<"By", "Ann">>, <<"By", "Bob">>, <<"Microsoft", "Teams", "Meeting">>,
     <<"Teams">>, <<"Meeting", "Room">>, <<"Tentative">>, <<"Busy">>,
     <<"Out", "of", "Office">>, <<"Recurring", "event">>, <<"Exception">>}

TailInputs == {[BaseInput EXCEPT !.tail = t] : t \in SeqsUpTo(TailSegments, MaxTail)}

NameSegments == {<<"A">>, <<"B", "C">>, <<"1:00", "PM", "to", "2:00", "PM">>}

NameInputs ==
    {[BaseInput EXCEPT !.name = n, !.weekday = w, !.month_day = md, !.year = y,
                       !.tail = t] :
        n \in SeqsUpTo(NameSegments, MaxName),
        w \in {<<"Monday">>, <<"Noday">>},
        md \in {<<"September", "29">>, <<"February", "29">>, <<"Sept", "29">>},
        y \in {<<"2024">>, <<"2025">>},
        t \in {<<>>, << <<"Free">> >>, << <<"3:00", "PM", "to", "4:00", "PM">> >>,
               << <<"Busy">>, <<"3:00", "PM", "to", "4:00", "PM">> >>}}

LabelInputs == ClockInputs \cup OddClockInputs \cup TailInputs \cup NameInputs

LabelInit ==
    /\ NoParser /\ NoMerge /\ NoExport /\ NoSetup
    /\ input \in LabelInputs
    /\ parsed = NoMatch
    /\ pc = "label"

\* the call of parse_event_label on the label of the pieces
ParseLabel ==
    /\ pc = "label"
    /\ parsed' = parse_event_label(Render(input))
    /\ pc' = "parsed"
    /\ UNCHANGED <<parser_events, processed_events, fed, monthly_events, weekly_events,
                   merged, events, store, teams_link, run, idx, created_count,
                   updated_count, skipped_count, error_count, last, faults, env, service,
                   input>>

LabelNext == ParseLabel

LabelSpec == LabelInit /\ [][LabelNext]_vars

\* the call has returned
LabelParsed == pc = "parsed"

\* C12: every record parse_event_label returns starts before it ends, and starts and
\* ends on the same calendar date.
C12_StartBeforeEnd ==
    (LabelParsed /\ parsed.ok) =>
        /\ NaiveInstant(parsed.event.start) < NaiveInstant(parsed.event.end)
        /\ parsed.event.start.day = parsed.event.end.day

(***************************************************************************)
(* Labels that cannot be parsed: the parser is fed start tags as in        *)
(* ParseSpec, and parse_event_label is also called on its own.             *)
(***************************************************************************)
AnotherInput == [BaseInput EXCEPT !.name = << <<"Y">> >>]

\* "Back to work, 9:00 AM until 10:00 AM, Monday, ...": passes the test of
\* handle_starttag, and no segment matches the time pattern
NoTimeInput ==
    [BaseInput EXCEPT !.name = << <<"Back", "to", "work">> >>, !.time.sep = "until"]

\* no weekday name anywhere in the label
NoWeekdayInput == [BaseInput EXCEPT !.weekday = <<"Noday">>]

BadDateInput == [BaseInput EXCEPT !.month_day = <<"September", "31">>]

\* 13:00 PM is hour 25
BadHourInput == [BaseInput EXCEPT !.time.sh = 13, !.time.sap = "PM"]

BadMinuteInput == [BaseInput EXCEPT !.time.em = 60]

ErrorInputs ==
    {BaseInput, AnotherInput, NoTimeInput, NoWeekdayInput, BadDateInput, BadHourInput,
     BadMinuteInput}

\* parse_event_label called on a label, away from any document
CallParse(i) ==
    /\ pc = "parse"
    /\ input' = i
    /\ parsed' = parse_event_label(Render(i))
    /\ UNCHANGED <<parser_events, processed_events, fed, monthly_events, weekly_events,
                   merged, events, store, teams_link, pc, run, idx, created_count,
                   updated_count, skipped_count, error_count, last, faults, env, service>>

ErrorNext ==
    \/ \E i \in ErrorInputs : HandleStartTag("div", Render(i))
    \/ \E i \in ErrorInputs : CallParse(i)

ErrorSpec == ParseInit /\ [][ErrorNext]_vars

\* no segment of the label is a time range with "to" between two clock times
NoTimeRange(i) ==
    /\ i.time.sep # "to"
    /\ \A k \in 1..Len(i.name) : Len(i.name[k]) < 5
    /\ \A k \in 1..Len(i.tail) : Len(i.tail[k]) < 5

\* the month and day do not name a day of that year, or a time is no time of day
Unparsable(i) ==
    \/ i.month_day \in {<<"September", "31">>, <<"February", "29">>, <<"Sept", "29">>}
       /\ ~(i.month_day = <<"February", "29">> /\ i.year = <<"2024">>)
    \/ i.time.sm > 59 \/ i.time.em > 59
    \/ i.time.sh > 12 /\ upper(i.time.sap) = "PM"
    \/ i.time.eh > 12 /\ upper(i.time.eap) = "PM"

\* no weekday name in any segment
NoWeekdayToken(i) ==
    /\ \A k \in 1..Len(i.weekday) : i.weekday[k] \notin Weekdays
    /\ \A n \in 1..Len(i.name) : \A k \in 1..Len(i.name[n]) : i.name[n][k] \notin Weekdays
    /\ \A n \in 1..Len(i.tail) : \A k \in 1..Len(i.tail[n]) : i.tail[n][k] \notin Weekdays

\* the labels the document loses
DroppedLabels ==
    {Render(i) : i \in {j \in ErrorInputs :
                           NoTimeRange(j) \/ Unparsable(j) \/ NoWeekdayToken(j)}}

\* the records of the start tags that are not lost, in document order
RECURSIVE KeptOf(_)
KeptOf(tags) ==
    IF tags = <<>> THEN <<>>
    ELSE (IF Head(tags).tag = "div" /\ Head(tags).label \notin DroppedLabels
          THEN <<parse_event_label(Head(tags).label).event>>
          ELSE <<>>) \o KeptOf(Tail(tags))

\* the parser holds what the labels that are not lost give, each key once, in order
LossesAreLocal ==
    LET kept == KeptOf(fed)
        first == FirstOfKey(kept)
    IN /\ Len(parser_events) = Cardinality(first)
       /\ \A k \in 1..Len(parser_events) :
             \E j \in first :
                /\ parser_events[k] = kept[j]
                /\ Cardinality({i \in first : i <= j}) = k
       /\ processed_events = KeysOf(kept)

\* C13 as stated: parse_event_label never raises and returns None for a label with no
\* time range, with no weekday token, or with an unparsable date or time; such a
\* label adds nothing to the parser, and the labels after it are still parsed.
C13_ParseErrorsLocal ==
    /\ parsed # Raised
    /\ input # NoInput =>
          ((NoTimeRange(input) \/ NoWeekdayToken(input) \/ Unparsable(input))
              => parsed = NoMatch)
    /\ LossesAreLocal

\* C13, amended: parse_event_label never raises and returns None for a label with no
\* time range or with an unparsable date or time; a label with no weekday name in it
\* is not handed to parse_event_label by handle_starttag (called on it directly,
\* parse_event_label returns a record, as it never looks at the weekday); in each of
\* these cases nothing is added to the events list or to processed_events, and the
\* labels after it are still parsed.
C13_ErrorsLocal ==
    /\ parsed # Raised
    /\ input # NoInput =>
          /\ (NoTimeRange(input) \/ Unparsable(input)) => parsed = NoMatch
          /\ (NoWeekdayToken(input) /\ ~NoTimeRange(input) /\ ~Unparsable(input))
                => parsed.ok
    /\ LossesAreLocal

\* a label without a weekday and a label with a date that does not exist came first,
\* the label after them was parsed; parse_event_label itself returned None for the
\* bad date
C13_Witness ==
    /\ Len(fed) = 3
    /\ fed[1].label = Render(NoWeekdayInput) /\ fed[2].label = Render(BadDateInput)
    /\ fed[3].label = Render(BaseInput)
    /\ Len(parser_events) = 1 /\ parser_events[1].summary = <<"X">>
    /\ input = BadDateInput /\ parsed = NoMatch

(***************************************************************************)
(* One export_event call against stores that hold several events in and    *)
(* around the record's slot.                                               *)
(***************************************************************************)
MaxMatch == 2

\* the record, cancelled (by its type) or not
MatchRecords ==
    {EventRecord(<<"X">>, Nine, Ten, <<>>, <<"Busy">>, t, <<>>) :
        t \in {<<>>, <<"Canceled">>}}

\* 09:00:00-07:00, 09:00:00Z, 09:00:30-07:00 and 09:01:00-07:00 of the record's day
MatchStarts ==
    {[day |-> Sep29, hm |-> 9 * 60, sec |-> 0, offset |-> TzOffset],
     [day |-> Sep29, hm |-> 9 * 60, sec |-> 0, offset |-> 0],
     [day |-> Sep29, hm |-> 9 * 60, sec |-> 30, offset |-> TzOffset],
     [day |-> Sep29, hm |-> 9 * 60 + 1, sec |-> 0, offset |-> TzOffset]}

MatchRemotes ==
    {[InitialRemote(s, Ten, t) EXCEPT !.start = b] :
        s \in {<<"X">>, <<"Y">>}, t \in {"confirmed", "cancelled"}, b \in MatchStarts}

MatchStores ==
    {[k \in 1..Len(l) |-> [id |-> k] @@ l[k]] : l \in SeqsUpTo(MatchRemotes, MaxMatch)}

MatchInit ==
    /\ NoParser /\ NoMerge /\ NoLabel /\ Configured
    /\ \E r \in MatchRecords : events = <<r>>
    /\ store \in MatchStores
    /\ teams_link = <<>>
    /\ pc = "export" /\ run = 1 /\ idx = 1
    /\ created_count = 0 /\ updated_count = 0 /\ skipped_count = 0 /\ error_count = 0
    /\ last = NoCall /\ faults = 0

MatchNext == \E list_call \in Calls, write_call \in Calls : ExportNext(list_call, write_call)

MatchSpec == MatchInit /\ [][MatchNext]_vars

\* what the window query of the latest call returned
Returned ==
    ListEvents(last.before,
               NaiveInstant(LastRecord.start) - SearchDaysBefore * MinutesPerDay * 60,
               NaiveInstant(LastRecord.start) + SearchDaysAfter * MinutesPerDay * 60)

\* a returned event the record may take: not cancelled unless the record is, the
\* record's summary, the record's date, hour and minute whatever the offset
Eligible(event, event_data) ==
    /\ event.status = "cancelled" => event_data.is_canceled
    /\ event.summary = event_data.summary
    /\ event.start.day = event_data.start.day
    /\ event.start.hm = event_data.start.hm

\* C14: when the query succeeds, the candidate is the first returned event that is not
\* cancelled (unless the record is), has the record's summary and has the record's
\* start up to the minute, offset ignored; when there is none there is no candidate,
\* the call issues an insert and no update, and its outcome is created once the
\* insert succeeds.
C14_FirstEligibleCandidate ==
    (Called /\ last.ops[1].result = "ok") =>
        LET hits == {k \in 1..Len(Returned) : Eligible(Returned[k], LastRecord)}
        IN IF hits # {}
           THEN /\ \E k \in hits :
                      /\ \A j \in hits : k <= j
                      /\ last.candidate = Returned[k].id
                /\ NumOps("insert") = 0
           ELSE /\ last.candidate = 0
                /\ NumOps("insert") = 1 /\ NumOps("update") = 0
                /\ ~Failed(last.ops) =>
                      /\ last.action = "created"
                      /\ Len(store) = Len(last.before) + 1

\* the query returned a cancelled event in the record's slot first; the record, not
\* cancelled, took the event after it, which the store holds before the other
C14_Witness ==
    /\ Called /\ last.ops[1].result = "ok"
    /\ ~LastRecord.is_canceled
    /\ Len(Returned) = 2
    /\ Returned[1].status = "cancelled" /\ Returned[1].summary = LastRecord.summary
    /\ Returned[1].start.hm = LastRecord.start.hm
    /\ Returned[1].id = 2
    /\ last.candidate = 1

(***************************************************************************)
(* One export_event call for a record whose slot holds one remote event,   *)
(* the two differing in every way the comparison looks at.                 *)
(***************************************************************************)
DiffRecords ==
    {EventRecord(<<"X">>, Nine, e, o, s, t, <<>>) :
        e \in {Ten, Eleven}, o \in {<<>>, <<"Ann">>},
        s \in {<<"Busy">>, <<"Free">>, <<"Tentative">>}, t \in {<<>>, <<"Canceled">>}}

DiffEnds ==
    {[day |-> Sep29, hm |-> 10 * 60, sec |-> 0, offset |-> TzOffset],
     [day |-> Sep29, hm |-> 10 * 60, sec |-> 30, offset |-> 0],
     [day |-> Sep29, hm |-> 11 * 60, sec |-> 0, offset |-> TzOffset]}

DiffDescriptions ==
    {Missing, <<>>, <<" ">>, <<"Organizer:", "Ann">>, <<"Organizer:", "Ann", "\n">>,
     <<"Organizer:", "Ann", "\n", "Type:", "Canceled">>}

DiffRemotes ==
    {[InitialRemote(<<"X">>, Ten, s) EXCEPT !.end = e, !.description = d,
                                            !.transparency = t] :
        e \in DiffEnds, d \in DiffDescriptions,
        s \in {"", "confirmed", "CONFIRMED", "tentative", "cancelled"},
        t \in {"", "opaque", "transparent", "TRANSPARENT"}}

DiffInit ==
    /\ NoParser /\ NoMerge /\ NoLabel /\ Configured
    /\ \E r \in DiffRecords : events = <<r>>
    /\ \E e \in DiffRemotes : store = <<[id |-> 1] @@ e>>
    /\ teams_link = <<>>
    /\ pc = "export" /\ run = 1 /\ idx = 1
    /\ created_count = 0 /\ updated_count = 0 /\ skipped_count = 0 /\ error_count = 0
    /\ last = NoCall /\ faults = 0

DiffNext == \E list_call \in Calls, write_call \in Calls : ExportNext(list_call, write_call)

DiffSpec == DiffInit /\ [][DiffNext]_vars

\* a text without the whitespace at its ends, an absent text being empty
Trimmed(text) ==
    IF text = Missing \/ \A k \in 1..Len(text) : text[k] \in Whitespace THEN <<>>
    ELSE LET solid == {k \in 1..Len(text) : text[k] \notin Whitespace}
             lo == CHOOSE k \in solid : \A j \in solid : k <= j
             hi == CHOOSE k \in solid : \A j \in solid : j <= k
         IN SubSeq(text, lo, hi)

\* a status or transparency word in lower case, the default when it is absent
Normal(word, default) == lower(IF word = "" THEN default ELSE word)

\* the candidate differs from the event derived from the record in a compared field
Differs(candidate, derived) ==
    \/ candidate.summary # derived.summary
    \/ <<candidate.start.day, candidate.start.hm>>
           # <<derived.start.dateTime[1], derived.start.dateTime[2]>>
    \/ <<candidate.end.day, candidate.end.hm>>
           # <<derived.end.dateTime[1], derived.end.dateTime[2]>>
    \/ Trimmed(candidate.description) # Trimmed(derived.description)
    \/ Normal(candidate.status, "confirmed") # Normal(derived.status, "confirmed")
    \/ Normal(candidate.transparency, "opaque") # Normal(derived.transparency, "opaque")

\* C15: a call that found a candidate issues an update exactly when the candidate
\* differs from the derived event in summary, start minute, end minute, trimmed
\* description, status or transparency; its outcome is then updated (once the update
\* succeeds), and otherwise it is skipped, with nothing written.
C15_UpdateIffDiffers ==
    (Called /\ last.candidate # 0) =>
        LET candidate == last.before[last.candidate]
            derived == google_event(LastRecord, teams_link)
        IN IF Differs(candidate, derived)
           THEN /\ NumOps("update") = 1 /\ NumOps("insert") = 0
                /\ ~Failed(last.ops) => last.action = "updated"
           ELSE /\ last.action = "skipped"
                /\ NumOps("update") = 0 /\ NumOps("insert") = 0
                /\ store = last.before

\* the remote event has no description, no status and no transparency, and an end half
\* a minute and an offset away: it is the record's event, and the outcome is skipped
C15_Witness ==
    /\ last.action = "skipped"
    /\ last.before[last.candidate].description = Missing
    /\ last.before[last.candidate].status = ""
    /\ last.before[last.candidate].transparency = ""
    /\ last.before[last.candidate].end.sec = 30
    /\ LastRecord.status = <<"Busy">>

(***************************************************************************)
(* One export_event call for a record of every status, cancelled by its    *)
(* name, by its type or not at all, against an empty store or a store that *)
(* holds the record's event.                                               *)
(***************************************************************************)
StatusRecords ==
    {EventRecord(n, Nine, Ten, <<>>, s, t, <<>>) :
        n \in {<<"X">>, <<"Canceled:", "X">>},
        s \in StatusWords \cup {<<>>, <<"Working", "Elsewhere">>},
        t \in {<<>>, <<"Recurring", "event">>, <<"Canceled">>}}

StatusStores ==
    {<<>>} \cup {<<[id |-> 1] @@ InitialRemote(n, Eleven, "confirmed")>> :
                    n \in {<<"X">>, <<"Canceled:", "X">>}}

StatusInit ==
    /\ NoParser /\ NoMerge /\ NoLabel /\ Configured
    /\ \E r \in StatusRecords : events = <<r>>
    /\ store \in StatusStores
    /\ teams_link = <<>>
    /\ pc = "export" /\ run = 1 /\ idx = 1
    /\ created_count = 0 /\ updated_count = 0 /\ skipped_count = 0 /\ error_count = 0
    /\ last = NoCall /\ faults = 0

StatusNext == \E list_call \in Calls, write_call \in Calls : ExportNext(list_call, write_call)

StatusSpec == StatusInit /\ [][StatusNext]_vars

\* the status and the transparency the claim gives a record
DerivedStatus(event_data) ==
    IF event_data.is_canceled THEN "cancelled"
    ELSE IF event_data.status = <<"Tentative">> THEN "tentative"
    ELSE "confirmed"

DerivedTransparency(event_data) ==
    IF event_data.status = <<"Free">> THEN "transparent" ELSE "opaque"

\* the remote event the latest call wrote
Written ==
    IF last.action = "created" THEN store[Len(store)] ELSE store[last.candidate]

\* C16: the event a call writes has status cancelled when the record is cancelled,
\* else tentative for Tentative and confirmed for every other status, and is
\* transparent exactly for Free; a cancelled record with no remote match is created
\* as a cancelled event; the ICS event of the record has the same status and
\* transparency.
C16_DerivedStatus ==
    /\ (Called /\ last.action \in {"created", "updated"}) =>
          /\ Written.status = DerivedStatus(LastRecord)
          /\ Written.transparency = DerivedTransparency(LastRecord)
          /\ Written.summary = LastRecord.summary
    /\ (Called /\ LastRecord.is_canceled /\ last.candidate = 0 /\ ~Failed(last.ops)) =>
          /\ last.action = "created"
          /\ Len(store) = Len(last.before) + 1
          /\ store[Len(store)].status = "cancelled"
    /\ Called =>
          /\ lower(add_event(LastRecord).status) = DerivedStatus(LastRecord)
          /\ lower(add_event(LastRecord).transp) = DerivedTransparency(LastRecord)

\* a record that is Free and cancelled by its type found nothing in the store and was
\* created cancelled and transparent
C16_Witness ==
    /\ last.action = "created"
    /\ last.before = <<>>
    /\ LastRecord.status = <<"Free">> /\ LastRecord.event_type = <<"Canceled">>
    /\ store[1].status = "cancelled" /\ store[1].transparency = "transparent"

(***************************************************************************)
(* merge_events with up to MaxSecondary weekly records, so that the order  *)
(* of the appended ones shows.                                             *)
(***************************************************************************)
MaxSecondary == 2

OrderInit ==
    /\ NoParser /\ NoExport /\ NoLabel /\ NoSetup
    /\ monthly_events \in Deduplicated(MergeMonthlyRecords, MaxMonthly)
    /\ weekly_events \in Deduplicated(MergeWeeklyRecords, MaxSecondary)
    /\ merged = <<>>
    /\ pc = "merge"

OrderNext == Merge

OrderSpec == OrderInit /\ [][OrderNext]_vars

\* the weekly records with the key of the record
Partners(event, weekly) ==
    {j \in 1..Len(weekly) : MergeKey(weekly[j]) = MergeKey(event)}

\* a field of a monthly record after the merge: its own value unless that is empty and
\* a weekly record has its key
Filled(own, event, weekly, field) ==
    IF own # <<>> \/ Partners(event, weekly) = {} THEN {own}
    ELSE {IF field = "location" THEN weekly[j].location ELSE weekly[j].organizer :
             j \in Partners(event, weekly)}

\* C17: the list merge_events returns is the monthly records in their order, each with
\* its empty location and organizer filled from the weekly record of its key,
\* followed by the weekly records whose key no monthly record has, in their order,
\* and by nothing else.
C17_MergeOrder ==
    [][(pc = "merge" /\ pc' = "merged") =>
          LET n == Len(monthly_events)
              keys == {MergeKey(monthly_events[k]) : k \in 1..n}
              extra == {j \in 1..Len(weekly_events) : MergeKey(weekly_events[j]) \notin keys}
          IN /\ Len(merged') = n + Cardinality(extra)
             /\ \A k \in 1..n :
                   LET before == monthly_events[k]
                       after == merged'[k]
                   IN /\ [after EXCEPT !.location = <<>>, !.organizer = <<>>]
                         = [before EXCEPT !.location = <<>>, !.organizer = <<>>]
                      /\ after.location
                            \in Filled(before.location, before, weekly_events, "location")
                      /\ after.organizer
                            \in Filled(before.organizer, before, weekly_events, "organizer")
             /\ \A j \in extra :
                   merged'[n + Cardinality({i \in extra : i <= j})] = weekly_events[j]]_vars

\* two monthly and two weekly records: the first weekly record has no monthly
\* counterpart and is appended, the second has one and is not
C17_Witness ==
    /\ pc = "merged"
    /\ Len(monthly_events) = 2 /\ Len(weekly_events) = 2 /\ Len(merged) = 3
    /\ merged[3] = weekly_events[1]
    /\ MergeKey(weekly_events[2]) = MergeKey(merged[1])
    /\ merged[1].location = <<"Room", "4">>

\* the hour of the day of an hour on a 12-hour clock, as the claim gives it
HourOfDay(h, marker) ==
    IF h = 12 THEN (IF upper(marker) = "AM" THEN 0 ELSE 12)
    ELSE IF upper(marker) = "PM" THEN h + 12
    ELSE h

\* the time range of the label is made of hours 1..12 and minutes 0..59
OnTheClock(time) ==
    /\ time.sep = "to"
    /\ time.sh \in 1..12 /\ time.eh \in 1..12
    /\ time.sm \in 0..59 /\ time.em \in 0..59

\* the pieces of the label other than the time range are those of BaseInput
PlainBut(i) == [i EXCEPT !.time = BaseInput.time] = BaseInput

\* C18: for a label whose start and end hours are in 1..12, with either marker, a
\* record is returned whose start and end have the hour 0 for 12 AM, 12 for 12 PM,
\* h + 12 for any other PM hour and h for any other AM hour, always in 0..23, and
\* the minute of the label.
C18_TwelveHourClock ==
    (LabelParsed /\ PlainBut(input) /\ OnTheClock(input.time)) =>
        /\ parsed.ok
        /\ parsed.event.start.hm
              = HourOfDay(input.time.sh, input.time.sap) * 60 + input.time.sm
        /\ parsed.event.end.hm
              = HourOfDay(input.time.eh, input.time.eap) * 60 + input.time.em
        /\ parsed.event.start.hm \div 60 \in 0..23
        /\ parsed.event.end.hm \div 60 \in 0..23

\* "X, 12:30 pm to 12:00 AM, ...": noon stays 12 and midnight becomes 0
C18_Witness ==
    /\ LabelParsed
    /\ input.time = Clock(12, 30, "pm", 12, 0, "AM")
    /\ parsed.ok
    /\ parsed.event.start.hm = 12 * 60 + 30
    /\ parsed.event.end.hm = 0

NamesPlace(part) == ~StartsWithBy(part) /\ (Contains(part, "Teams") \/ Contains(part, "Meeting"))

NamesStatus(part) == part \in StatusWords

NamesType(part) ==
    Contains(part, "Recurring") \/ Contains(part, "Exception") \/ Contains(part, "Canceled")

\* the segment of the tail at the least of the positions, <<>> when there is none
FirstAt(tail, positions) ==
    IF positions = {} THEN <<>>
    ELSE tail[CHOOSE k \in positions : \A j \in positions : k <= j]

\* the positions of the tail whose segment is of a kind
Organizers(tail) == {k \in 1..Len(tail) : StartsWithBy(tail[k])}

Places(tail) == {k \in 1..Len(tail) : NamesPlace(tail[k])}

Statuses(tail) == {k \in 1..Len(tail) : NamesStatus(tail[k])}

Types(tail) == {k \in 1..Len(tail) : NamesType(tail[k])}

\* C19: of the segments after the year, the first that begins with "By " gives the
\* organizer (the text after "By "), the first that contains Teams or Meeting the
\* location, the first that is a status word the status, and the first that contains
\* Recurring, Exception or Canceled the event type; a later segment of the same kind
\* changes nothing.
C19_FirstMatchWins ==
    (LabelParsed /\ parsed.ok /\ [input EXCEPT !.tail = BaseInput.tail] = BaseInput) =>
        /\ parsed.event.organizer
              = (LET by == FirstAt(input.tail, Organizers(input.tail))
                 IN IF by = <<>> THEN <<>> ELSE Tail(by))
        /\ parsed.event.location = FirstAt(input.tail, Places(input.tail))
        /\ parsed.event.status = FirstAt(input.tail, Statuses(input.tail))
        /\ parsed.event.event_type = FirstAt(input.tail, Types(input.tail))

\* the segments of the label, in order
Segments(i) == i.name \o <<TimeSegment(i.time), i.weekday, i.month_day, i.year>> \o i.tail

\* a segment that reads "H:MM AM|PM to H:MM AM|PM"
IsRange(segment) ==
    /\ Len(segment) = 5
    /\ upper(segment[2]) \in {"AM", "PM"} /\ upper(segment[5]) \in {"AM", "PM"}
    /\ upper(segment[3]) = "TO"

\* the day a month+day and a year of the model's labels name, 0 when they name none
DayNamed(month_day, year) ==
    LET y == IF year = <<"2024">> THEN 2024 ELSE 2025
    IN IF month_day = <<"September", "29">> THEN Ordinal(y, 9, 29)
       ELSE IF month_day = <<"February", "29">> /\ y = 2024 THEN Ordinal(y, 2, 29)
       ELSE 0

\* C20: the time range used is the first segment that is one, later ones
\* notwithstanding: a record is returned exactly when the three segments after it
\* name a day (so a label whose name holds a time range gives none), its summary is
\* the segments before it joined with ", ", its date is that of the two segments after
\* the weekday segment (which may be any word), and its times are those of that first
\* range.
C20_FirstTimeSegment ==
    (LabelParsed /\ OnTheClock(input.time)) =>
        LET segs == Segments(input)
            first == CHOOSE k \in 1..Len(segs) :
                         IsRange(segs[k]) /\ \A j \in 1..(k - 1) : ~IsRange(segs[j])
            own == first = Len(input.name) + 1
            day == DayNamed(input.month_day, input.year)
        IN /\ parsed.ok <=> (own /\ day # 0 /\ Len(segs) >= 5)
           /\ parsed.ok =>
                 /\ parsed.event.summary = join(SubSeq(segs, 1, first - 1))
                 /\ parsed.event.start.day = day /\ parsed.event.end.day = day
                 /\ parsed.event.start.hm
                       = HourOfDay(input.time.sh, input.time.sap) * 60 + input.time.sm
                 /\ parsed.event.end.hm
                       = HourOfDay(input.time.eh, input.time.eap) * 60 + input.time.em

\* "A, B C, 9:00 AM to 10:00 AM, Noday, February 29, 2024, Busy, 3:00 PM to 4:00 PM":
\* the summary keeps its comma and the later range is not used
C20_Witness ==
    /\ LabelParsed /\ parsed.ok
    /\ input.name = << <<"A">>, <<"B", "C">> >>
    /\ input.weekday = <<"Noday">>
    /\ Len(input.tail) = 2 /\ IsRange(input.tail[2])
    /\ parsed.event.summary = <<"A", Comma, "B", "C">>
    /\ parsed.event.start = DT(Ordinal(2024, 2, 29), 9 * 60)

(***************************************************************************)
(* The export loop over two records that differ in summary or in start     *)
(* minute, against stores that hold events of both.                        *)
(***************************************************************************)
NineOhOne == DT(Sep29, 9 * 60 + 1)

FrameLists ==
    {<<EventRecord(<<"X">>, Nine, Eleven, <<>>, <<"Busy">>, <<>>, <<>>),
       EventRecord(<<"Y">>, Nine, Eleven, <<>>, <<"Busy">>, <<>>, <<>>)>>,
     <<EventRecord(<<"X">>, Nine, Eleven, <<>>, <<"Busy">>, <<>>, <<>>),
       EventRecord(<<"X">>, NineOhOne, Eleven, <<>>, <<"Busy">>, <<"Canceled">>, <<>>)>>,
     <<EventRecord(<<"Y">>, NineOhOne, Ten, <<>>, <<"Free">>, <<>>, <<>>)>>}

FrameRemotes ==
    {[InitialRemote(s, Ten, t) EXCEPT !.start = StoredTime(isoformat(b))] :
        s \in {<<"X">>, <<"Y">>}, t \in {"confirmed", "cancelled"},
        b \in {Nine, NineOhOne}}

FrameStores ==
    {[k \in 1..Len(l) |-> [id |-> k] @@ l[k]] : l \in SeqsUpTo(FrameRemotes, MaxMatch)}

FrameInit ==
    /\ NoParser /\ NoMerge /\ NoLabel /\ Configured
    /\ events \in FrameLists
    /\ store \in FrameStores
    /\ teams_link = <<>>
    /\ pc = "export" /\ run = 1 /\ idx = 1
    /\ created_count = 0 /\ updated_count = 0 /\ skipped_count = 0 /\ error_count = 0
    /\ last = NoCall /\ faults = 0

FrameNext == \E list_call \in Calls, write_call \in Calls : ExportNext(list_call, write_call)

FrameSpec == FrameInit /\ [][FrameNext]_vars

\* C21: a call removes no remote event; the only event it can change is the candidate
\* of its record, and that by an update; every event whose summary or start minute is
\* not the record's is after the call what it was before.
C21_Frame ==
    Called =>
        /\ Len(store) >= Len(last.before)
        /\ \A k \in 1..Len(last.before) :
              /\ store[k].id = last.before[k].id
              /\ store[k] # last.before[k] =>
                    /\ last.before[k].id = last.candidate
                    /\ last.action = "updated"
              /\ ~SameSlot(last.before[k], LastRecord) => store[k] = last.before[k]

\* an update changed the record's event and left alone the event of the same summary a
\* minute later
C21_Witness ==
    /\ last.action = "updated"
    /\ Len(last.before) = 2
    /\ \E k, o \in 1..2 :
          /\ k # o
          /\ last.before[k].id = last.candidate /\ store[k] # last.before[k]
          /\ last.before[o].summary = LastRecord.summary
          /\ last.before[o].start.hm # LastRecord.start.hm
          /\ store[o] = last.before[o]

(***************************************************************************)
(* Convergence of the export loop (under Spec).                            *)
(***************************************************************************)
\* two records the matching step cannot tell apart: same summary, same start minute
SameKey(a, b) ==
    a.summary = b.summary /\ strftime_minute(a.start) = strftime_minute(b.start)

UniqueKeys(l) == \A a, b \in 1..Len(l) : a # b => ~SameKey(l[a], l[b])

\* the record has a candidate in the store and the comparison finds no difference
Settled(event_data, st) ==
    \E found \in {_find_existing_event(event_data, st, "ok")} :
        /\ found.event # NoEvent
        /\ ~_events_are_different(found.event, google_event(event_data, teams_link),
                                  event_data)

Locations == {<<>>, <<"Room", "1">>, <<"Room", "2">>}

TeamsLinks == {<<>>, <<"https://teams/1">>}

LocationRecords ==
    {EventRecord(<<"X">>, Nine, e, <<>>, <<"Busy">>, <<>>, l) :
        e \in {Ten, Eleven}, l \in Locations}

LocationRemotes ==
    {[InitialRemote(<<"X">>, e, "confirmed") EXCEPT !.description = d, !.location = l] :
        e \in {Ten, Eleven},
        d \in {<<>>} \cup {TeamsHeading \o link : link \in TeamsLinks \ {<<>>}},
        l \in Locations \cup {<<"Microsoft", "Teams", "Meeting">>}}

LocationStores == {<<>>} \cup {<<[id |-> 1] @@ e>> : e \in LocationRemotes}

LocationInit ==
    /\ NoParser /\ NoMerge /\ NoLabel /\ Configured
    /\ \E r \in LocationRecords : events = <<r>>
    /\ store \in LocationStores
    /\ teams_link \in TeamsLinks
    /\ pc = "export" /\ run = 1 /\ idx = 1
    /\ created_count = 0 /\ updated_count = 0 /\ skipped_count = 0 /\ error_count = 0
    /\ last = NoCall /\ faults = 0

LocationNext ==
    \E list_call \in Calls, write_call \in Calls : ExportNext(list_call, write_call)

LocationSpec == LocationInit /\ [][LocationNext]_vars

\* C23: the event a call created or updated carries the derived location; a call whose
\* candidate agrees with the derived event in every compared field is skipped whatever
\* the two locations are, and the store, the candidate's location included, is as it was.
C23_LocationNotCompared ==
    Called =>
        LET derived == google_event(LastRecord, teams_link)
        IN /\ last.action = "created" => store[Len(store)].location = derived.location
           /\ last.action = "updated" => store[last.candidate].location = derived.location
           /\ (last.candidate # 0 /\ ~Differs(last.before[last.candidate], derived)) =>
                 /\ last.action = "skipped"
                 /\ NumOps("update") = 0 /\ NumOps("insert") = 0
                 /\ store = last.before

\* the record is in Room 1, its event in Room 2 and otherwise the same: skipped, and
\* the event is still in Room 2
C23_Witness ==
    /\ last.action = "skipped"
    /\ LastRecord.location = <<"Room", "1">>
    /\ last.before[last.candidate].location = <<"Room", "2">>
    /\ store[last.candidate].location = <<"Room", "2">>

====
